---- MODULE Spec2Model ----
(***************************************************************************)
(* Model of the resumable pipeline controller run_agent_for_pdf of         *)
(* agent_transcribe.py: one document, any number of sequential invocations *)
(* of the controller on it, each with its own command-line configuration,  *)
(* each of which may be interrupted by the operator between any two of its *)
(* durable effects.                                                        *)
(*                                                                         *)
(* A transcript text is represented by what the controller reads from it:  *)
(* the number of [?] markers, the number of [...] markers, whether it is   *)
(* the synthesized stub text, and the page it was produced for.            *)
(***************************************************************************)
EXTENDS Integers, Sequences, FiniteSets, TLC

\* Largest number of page images the rasterizer produces for the document.
MaxPages == 2

\* Largest number of invocations of the controller on the document.
MaxRuns == 2

\* Largest number of page records of a run state handed to assemble_v1 alone.
MaxStored == 3

VARIABLES
    doc_pages,      \* number of pages of the input PDF (fixed for the document)
    persisted,      \* the state file: [exists, state]
    mem,            \* the AgentState object of the running invocation
    pc,             \* control position of the invocation ("idle": none runs)
    idx,            \* loop variable of the page loop (0-based, as in the code)
    cfg,            \* [use_api, hitl, stub_mode, lang] of the invocation
    got,            \* local variables transcription, meta
    stubTxt,        \* stubs/diplomatic/<page_id>.out.txt, per page: {} or {text}
    stubMeta,       \* stubs/diplomatic/<page_id>.meta.json, per page: {} or {meta}
    files,          \* work directory: [work, v1, v2, editlog], each file {} or {content}
    runs,           \* number of invocations started so far
    outcome,        \* how the invocation ended, once pc = "end"
    ever,           \* history: [images, done]: a stage images_ready or later was
                    \* persisted; the pages ever persisted with status done
    pass,           \* history: transcript source and policy steps of the page pass
                    \* in progress or just ended
    retryOwed,      \* history: pages with a triggered retry not yet re-attempted
    flaggedOff,     \* history: pages left needs_review with HITL disabled, not re-offered
    obtained        \* history: pages whose transcript the invocation has obtained

vars == <<runs, doc_pages, persisted, mem, pc, idx, cfg, got, stubTxt, stubMeta,
          files, outcome, ever, pass, retryOwed, flaggedOff, obtained>>

----------------------------------------------------------------------------
(* Configuration and data *)

Stages == <<"init", "images_ready", "transcribing", "v1_ready", "normalizing", "done">>

StageRank(s) == CHOOSE k \in 1..Len(Stages) : Stages[k] = s

\* The --lang values offered to an invocation (the default of line 621).
Langs == {"hu"}

StubModes == {"off", "record", "replay", "generate"}

Configs == [use_api : BOOLEAN, hitl : BOOLEAN, stub_mode : StubModes, lang : Langs]

NoConfig == [use_api |-> FALSE, hitl |-> FALSE, stub_mode |-> "off", lang |-> "hu"]

DEFAULT_THRESHOLDS ==
    [hu |-> [max_uncertain |-> 50, max_illegible |-> 20, retry_budget |-> 1],
     default |-> [max_uncertain |-> 40, max_illegible |-> 15, retry_budget |-> 1]]

thresholds_for_lang(lang) ==
    IF lang \in DOMAIN DEFAULT_THRESHOLDS THEN DEFAULT_THRESHOLDS[lang]
    ELSE DEFAULT_THRESHOLDS["default"]

PageState(n) ==
    [page |-> n, diplomatic_txt_path |-> FALSE, status |-> "pending",
     confidence |-> "none", uncertain_count |-> 0, illegible_count |-> 0,
     retries_used |-> 0]

AgentState ==
    [stage |-> "init", pages_total |-> 0, current_page_index |-> 0,
     pages |-> << >>, v1_path |-> FALSE, v2_path |-> FALSE]

\* A transcript: the text and the metadata record.
Transcript(u, i, conf, stub, p) ==
    [text |-> [uncertain |-> u, illegible |-> i, stub |-> stub, page |-> p],
     meta |-> [confidence |-> conf, stub_no_model_call |-> stub, page |-> p]]

NoTranscript == Transcript(0, 0, "none", FALSE, 0)

\* Faulty variant: the synthesized stub claims high confidence.
make_generated_stub_HighConfidence(page_num) == Transcript(0, 0, "high", TRUE, page_num)

make_generated_stub(page_num) == Transcript(0, 0, "low", TRUE, page_num)

\* What the transcription service may answer for a page: a clean page, a page
\* over the uncertain threshold, a page over the illegible threshold.
LiveOutputs(page_num) ==
    {Transcript(0, 0, "high", FALSE, page_num),
     Transcript(51, 0, "medium", FALSE, page_num),
     Transcript(0, 21, "low", FALSE, page_num)}

count_markers(text) == <<text.uncertain, text.illegible>>

\* The work directory before the first invocation: no page transcript, no
\* assembled document, no normalized document, no edit log.
NoFiles == [work |-> [p \in {} |-> {}], v1 |-> {}, v2 |-> {}, editlog |-> {}]

\* The file work/<page_id>.diplomatic.txt of page number n.
WorkFile(fs, n) == IF n \in DOMAIN fs.work THEN fs.work[n] ELSE {}

\* write_text of the page transcript of page number n.
WithWorkFile(fs, n, text) ==
    [fs EXCEPT !.work = [q \in DOMAIN fs.work \cup {n} |->
                            IF q = n THEN {text} ELSE fs.work[q]]]

----------------------------------------------------------------------------
(* Policy *)

\* Faulty variant: the budget test of line 343 is missing.
should_retry_NoBudget(uncertain, illegible, retries_used, th) ==
    uncertain > th.max_uncertain \/ illegible > th.max_illegible

\* Faulty variant: the illegible-marker test of line 345 is missing.
should_retry_UncertainOnly(uncertain, illegible, retries_used, th) ==
    IF retries_used >= th.retry_budget THEN FALSE
    ELSE uncertain > th.max_uncertain

should_retry(uncertain, illegible, retries_used, th) ==
    IF retries_used >= th.retry_budget THEN FALSE
    ELSE uncertain > th.max_uncertain \/ illegible > th.max_illegible

\* Faulty variant: the confidence test of line 349 is missing.
needs_human_review_CountsOnly(confidence, uncertain, illegible, th) ==
    IF uncertain > th.max_uncertain THEN TRUE
    ELSE IF illegible > th.max_illegible THEN TRUE
    ELSE FALSE

needs_human_review(confidence, uncertain, illegible, th) ==
    IF confidence = "low" THEN TRUE
    ELSE IF uncertain > th.max_uncertain THEN TRUE
    ELSE IF illegible > th.max_illegible THEN TRUE
    ELSE FALSE

----------------------------------------------------------------------------
(* State store and stub store *)

\* Faulty variant: the confidence labels are not serialized.
save_state_DropConfidence(state) ==
    [state EXCEPT !.pages = [p \in DOMAIN state.pages |->
                               [state.pages[p] EXCEPT !.confidence = "none"]]]

\* What save_state writes for a state object (the timestamp is not modelled).
save_state(state) == state

load_state(file) == IF file.exists THEN {file.state} ELSE {}

Saved(state) == [exists |-> TRUE, state |-> save_state(state)]

load_stub_diplomatic(p) ==
    IF stubTxt[p] # {} /\ stubMeta[p] # {}
    THEN {[text |-> t, meta |-> m] : t \in stubTxt[p], m \in stubMeta[p]}
    ELSE {}

----------------------------------------------------------------------------
(* Helpers of the page loop *)

Page(state, i) == state.pages[i + 1]

WithPage(state, i, ps) == [state EXCEPT !.pages[i + 1] = ps]

\* Faulty variant: the test of line 453 is missing.
SkipPage_RedoDone(ps, hitl) ==
    \/ ps.status = "failed"
    \/ ps.status = "needs_review" /\ ~hitl

\* Lines 453-458: the three `continue`s at the head of the loop body.
SkipPage(ps, hitl) ==
    \/ ps.status = "done"
    \/ ps.status = "failed"
    \/ ps.status = "needs_review" /\ ~hitl

\* Faulty variant: the assignment of line 516 is missing.
WithArtifacts_NoPath(ps, t) ==
    [ps EXCEPT !.uncertain_count = count_markers(t.text)[1],
               !.illegible_count = count_markers(t.text)[2],
               !.confidence = t.meta.confidence]

\* Lines 507-517: counts, confidence and artifact paths of the page.
WithArtifacts(ps, t) ==
    [ps EXCEPT !.uncertain_count = count_markers(t.text)[1],
               !.illegible_count = count_markers(t.text)[2],
               !.confidence = t.meta.confidence,
               !.diplomatic_txt_path = TRUE]

NoPass == [page |-> 0, steps |-> {}, ended |-> FALSE]

----------------------------------------------------------------------------
(* Lines 362-372: the assembled document. A document is represented by its  *)
(* page sections and the number of corrections applied to their text.      *)

\* sorted(pages, key=lambda x: x.page): ascending page number, records of
\* equal page number in their stored order. The record at position k of the
\* result is the one with k - 1 records before it.
sorted(pages) ==
    LET Before(i, j) == \/ pages[i].page < pages[j].page
                        \/ pages[i].page = pages[j].page /\ i < j
    IN [k \in 1..Len(pages) |->
          pages[CHOOSE j \in 1..Len(pages) :
                  Cardinality({i \in 1..Len(pages) : Before(i, j)}) = k - 1]]

\* Lines 365-371: header of the page, then the placeholder or the text of the
\* page file. rstrip and the final newline do not change what a text is here.
Section(ps, fs) ==
    IF ~ps.diplomatic_txt_path
    THEN [page |-> ps.page, missing |-> TRUE, text |-> NoTranscript.text]
    ELSE [page |-> ps.page, missing |-> FALSE,
          text |-> CHOOSE t \in WorkFile(fs, ps.page) : TRUE]

\* Faulty variant: the pages are taken in the order they are stored.
assemble_v1_Unsorted(state, fs) ==
    [sections |-> [k \in 1..Len(state.pages) |-> Section(state.pages[k], fs)],
     corrections |-> 0]

assemble_v1(state, fs) ==
    LET ordered == sorted(state.pages) IN
      [sections |-> [k \in 1..Len(ordered) |-> Section(ordered[k], fs)],
       corrections |-> 0]

\* Lines 301-331 and 576-586: corrected text and edit log. Without the API the
\* document passes through with an empty log; the service may leave the text
\* as it is or change it and log its edits.
Edited(doc) == [doc EXCEPT !.corrections = @ + 1]

NormalizeOutputs(use_api, v1_text) ==
    IF ~use_api THEN {[corrected |-> v1_text, editlog |-> << >>]}
    ELSE {[corrected |-> v1_text, editlog |-> << >>],
          [corrected |-> Edited(v1_text), editlog |-> <<"edit">>]}

DonePages(state) == {p \in 1..Len(state.pages) : state.pages[p].status = "done"}

----------------------------------------------------------------------------
TypeOK ==
    /\ doc_pages \in 0..MaxPages
    /\ persisted.exists \in BOOLEAN
    /\ cfg \in Configs
    /\ idx \in 0..MaxPages

Init ==
    /\ doc_pages \in 0..MaxPages
    /\ persisted = [exists |-> FALSE, state |-> AgentState]
    /\ mem = AgentState
    /\ pc = "idle"
    /\ runs = 0
    /\ idx = 0
    /\ cfg = NoConfig
    /\ got = NoTranscript
    /\ stubTxt = [p \in 1..MaxPages |-> {}]
    /\ stubMeta = [p \in 1..MaxPages |-> {}]
    /\ files = NoFiles
    /\ outcome = "none"
    /\ ever = [images |-> FALSE, done |-> {}]
    /\ pass = NoPass
    /\ retryOwed = {}
    /\ flaggedOff = {}
    /\ obtained = {}

----------------------------------------------------------------------------
(* Building blocks of the actions *)

\* The state object is mutated to `state` and flushed with save_state.
Flush(state) ==
    /\ mem' = state
    /\ persisted' = Saved(state)
    /\ ever' = [images |-> ever.images \/ Saved(state).state.stage # "init",
                done |-> ever.done \cup DonePages(Saved(state).state)]

NoFlush ==
    UNCHANGED <<mem, persisted, ever>>

\* The invocation ends: by reaching the end of the function ("returned"), by a
\* return at a HITL decision ("stopped") or by an exception ("fatal").
End(how) ==
    /\ pc' = "end"
    /\ outcome' = how

Goto(label) ==
    /\ pc' = label
    /\ outcome' = outcome

\* The page pass at loop index idx is over.
PassEnds == pass' = [pass EXCEPT !.ended = TRUE]

PassStep(step) == pass' = [pass EXCEPT !.steps = @ \cup {step}]

th == thresholds_for_lang(cfg.lang)

----------------------------------------------------------------------------
(* Lines 379-428: start of an invocation, load or create the state *)

\* Faulty variant: the state file is never found.
LoadOrCreate_AlwaysCreate(file) == AgentState

LoadOrCreate(file) ==
    IF load_state(file) = {} THEN AgentState
    ELSE CHOOSE state \in load_state(file) : TRUE

Start(c) ==
    /\ pc = "idle"
    /\ runs < MaxRuns
    /\ runs' = runs + 1
    /\ cfg' = c
    /\ mem' = LoadOrCreate(persisted)
    /\ persisted' = IF load_state(persisted) = {} THEN Saved(LoadOrCreate(persisted))
                    ELSE persisted
    /\ pc' = "stages"
    /\ pass' = NoPass
    /\ UNCHANGED <<doc_pages, obtained, files, idx, got, stubTxt, stubMeta, outcome, ever,
                   retryOwed, flaggedOff>>

(* Lines 431-438: stage init, the rasterization call and the page records *)
Rasterize ==
    /\ pc = "stages" /\ mem.stage = "init"
    /\ Flush([mem EXCEPT !.pages = [n \in 1..doc_pages |-> PageState(n)],
                         !.pages_total = doc_pages,
                         !.stage = "images_ready"])
    /\ Goto("stages")
    /\ UNCHANGED <<runs, doc_pages, obtained, files, idx, cfg, got, stubTxt, stubMeta, pass,
                   retryOwed, flaggedOff>>

(* Lines 111-116, 161: pdftoppm exits non-zero *)
RasterizeFails ==
    /\ pc = "stages" /\ mem.stage = "init"
    /\ End("fatal")
    /\ NoFlush
    /\ UNCHANGED <<runs, doc_pages, obtained, files, idx, cfg, got, stubTxt, stubMeta, pass,
                   retryOwed, flaggedOff>>

(* Lines 441-444: images_ready -> transcribing *)
MarkTranscribing ==
    /\ pc = "stages" /\ mem.stage = "images_ready"
    /\ Flush([mem EXCEPT !.stage = "transcribing"])
    /\ Goto("stages")
    /\ UNCHANGED <<runs, doc_pages, obtained, files, idx, cfg, got, stubTxt, stubMeta, pass,
                   retryOwed, flaggedOff>>

\* Faulty variant: the loop resumes after the persisted next-page index.
EnterLoop_ResumesAfter ==
    /\ pc = "stages" /\ mem.stage = "transcribing"
    /\ idx' = mem.current_page_index + 1
    /\ Goto("loop")
    /\ NoFlush
    /\ UNCHANGED <<runs, doc_pages, obtained, files, cfg, got, stubTxt, stubMeta, pass,
                   retryOwed, flaggedOff>>

(* Lines 447-448: the page loop starts at the persisted next-page index *)
EnterLoop ==
    /\ pc = "stages" /\ mem.stage = "transcribing"
    /\ idx' = mem.current_page_index
    /\ Goto("loop")
    /\ NoFlush
    /\ UNCHANGED <<runs, doc_pages, obtained, files, cfg, got, stubTxt, stubMeta, pass,
                   retryOwed, flaggedOff>>

(* Lines 449-464: head of one iteration *)
LoopIter ==
    /\ pc = "loop" /\ idx < mem.pages_total
    /\ Flush([mem EXCEPT !.current_page_index = idx])
    /\ LET ps == Page(mem, idx) IN
         IF SkipPage(ps, cfg.hitl) THEN idx' = idx + 1 /\ Goto("loop")
         ELSE IF ps.status = "needs_review" /\ cfg.hitl
              THEN idx' = idx /\ Goto("prompt_reoffer")
              ELSE idx' = idx /\ Goto("obtain")
    /\ pass' = NoPass
    /\ UNCHANGED <<runs, doc_pages, obtained, files, cfg, got, stubTxt, stubMeta,
                   retryOwed, flaggedOff>>

\* Faulty variant: the save of line 469 is missing.
PromptReoffer_NoSave(ok) ==
    /\ pc = "prompt_reoffer"
    /\ IF ok
       THEN /\ mem' = WithPage(mem, idx, [Page(mem, idx) EXCEPT !.status = "pending"])
            /\ UNCHANGED <<persisted, ever>>
            /\ Goto("obtain")
       ELSE /\ NoFlush
            /\ End("stopped")
    /\ flaggedOff' = flaggedOff \ {idx + 1}
    /\ UNCHANGED <<runs, doc_pages, obtained, files, idx, cfg, got, stubTxt, stubMeta, pass,
                   retryOwed>>

(* Lines 465-470: HITL gate, re-offer of a previously flagged page *)
PromptReoffer(ok) ==
    /\ pc = "prompt_reoffer"
    /\ IF ok
       THEN /\ Flush(WithPage(mem, idx, [Page(mem, idx) EXCEPT !.status = "pending"]))
            /\ Goto("obtain")
       ELSE /\ NoFlush
            /\ End("stopped")
    /\ flaggedOff' = flaggedOff \ {idx + 1}
    /\ UNCHANGED <<runs, doc_pages, obtained, files, idx, cfg, got, stubTxt, stubMeta, pass,
                   retryOwed>>

(* Lines 556-558: the loop is exhausted, transcribing -> v1_ready *)
LoopExit ==
    /\ pc = "loop" /\ idx >= mem.pages_total
    /\ Flush([mem EXCEPT !.stage = "v1_ready"])
    /\ Goto("stages")
    /\ pass' = NoPass
    /\ UNCHANGED <<runs, doc_pages, obtained, files, idx, cfg, got, stubTxt, stubMeta,
                   retryOwed, flaggedOff>>

----------------------------------------------------------------------------
(* Lines 472-504: obtain the transcript of page idx + 1 *)

BeginPass(t, source) ==
    /\ got' = t
    /\ pass' = [page |-> idx + 1, steps |-> {source}, ended |-> FALSE]
    /\ retryOwed' = retryOwed \ {idx + 1}
    /\ obtained' = obtained \cup {idx + 1}

\* Lines 478-482 and 488-489: the stub is synthesized, then saved
ObtainGenerated ==
    /\ pc = "obtain" /\ ~cfg.use_api
    /\ cfg.stub_mode = "replay" => load_stub_diplomatic(idx + 1) = {}
    /\ BeginPass(make_generated_stub(Page(mem, idx).page), "generated")
    /\ Goto("stub_txt")
    /\ NoFlush
    /\ UNCHANGED <<runs, doc_pages, files, idx, cfg, stubTxt, stubMeta, flaggedOff>>

\* Lines 479, 485 and 494, 497: the stored stub is replayed
ObtainReplayed ==
    /\ pc = "obtain" /\ cfg.stub_mode = "replay"
    /\ \E t \in load_stub_diplomatic(idx + 1) : BeginPass(t, "replayed")
    /\ Goto("artifacts")
    /\ NoFlush
    /\ UNCHANGED <<runs, doc_pages, files, idx, cfg, stubTxt, stubMeta, flaggedOff>>

\* Faulty variant: the missing stub is synthesized as with the API disabled.
ReplayStubMissing_Synthesizes ==
    /\ pc = "obtain" /\ cfg.use_api /\ cfg.stub_mode = "replay"
    /\ load_stub_diplomatic(idx + 1) = {}
    /\ got' = make_generated_stub(Page(mem, idx).page)
    /\ Goto("stub_txt")
    /\ NoFlush
    /\ UNCHANGED <<runs, doc_pages, obtained, files, idx, cfg, stubTxt, stubMeta, pass,
                   retryOwed, flaggedOff>>

\* Lines 494-496: replay with the API enabled and no stored stub
ReplayStubMissing ==
    /\ pc = "obtain" /\ cfg.use_api /\ cfg.stub_mode = "replay"
    /\ load_stub_diplomatic(idx + 1) = {}
    /\ End("fatal")
    /\ NoFlush
    /\ UNCHANGED <<runs, doc_pages, obtained, files, idx, cfg, got, stubTxt, stubMeta, pass,
                   retryOwed, flaggedOff>>

\* Faulty variant: the test of line 493 is missing.
ObtainLive_AlsoInReplay ==
    /\ pc = "obtain" /\ cfg.use_api
    /\ \E t \in LiveOutputs(Page(mem, idx).page) : BeginPass(t, "live")
    /\ Goto(IF cfg.stub_mode = "record" THEN "stub_txt" ELSE "artifacts")
    /\ NoFlush
    /\ UNCHANGED <<runs, doc_pages, files, idx, cfg, stubTxt, stubMeta, flaggedOff>>

\* Lines 500-502: the live call returns a well-formed answer
ObtainLive ==
    /\ pc = "obtain" /\ cfg.use_api /\ cfg.stub_mode # "replay"
    /\ \E t \in LiveOutputs(Page(mem, idx).page) : BeginPass(t, "live")
    /\ Goto(IF cfg.stub_mode = "record" THEN "stub_txt" ELSE "artifacts")
    /\ NoFlush
    /\ UNCHANGED <<runs, doc_pages, files, idx, cfg, stubTxt, stubMeta, flaggedOff>>

\* Faulty variant: the failure is caught and the page is marked failed.
LiveCallFails_MarksFailed ==
    /\ pc = "obtain" /\ cfg.use_api /\ cfg.stub_mode # "replay"
    /\ End("fatal")
    /\ Flush(WithPage(mem, idx, [Page(mem, idx) EXCEPT !.status = "failed"]))
    /\ pass' = [page |-> idx + 1, steps |-> {"live"}, ended |-> TRUE]
    /\ obtained' = obtained \cup {idx + 1}
    /\ UNCHANGED <<runs, doc_pages, files, idx, cfg, got, stubTxt, stubMeta,
                   retryOwed, flaggedOff>>

\* Lines 240-241, 263-266: the live call fails or its answer does not parse
LiveCallFails ==
    /\ pc = "obtain" /\ cfg.use_api /\ cfg.stub_mode # "replay"
    /\ End("fatal")
    /\ NoFlush
    /\ pass' = [page |-> idx + 1, steps |-> {"live"}, ended |-> TRUE]
    /\ obtained' = obtained \cup {idx + 1}
    /\ UNCHANGED <<runs, doc_pages, files, idx, cfg, got, stubTxt, stubMeta,
                   retryOwed, flaggedOff>>

(* Line 206: save_stub_diplomatic writes the text file *)
StubWriteText ==
    /\ pc = "stub_txt"
    /\ stubTxt' = [stubTxt EXCEPT ![idx + 1] = {got.text}]
    /\ Goto("stub_meta")
    /\ NoFlush
    /\ UNCHANGED <<runs, doc_pages, obtained, files, idx, cfg, got, stubMeta, pass,
                   retryOwed, flaggedOff>>

(* Line 207: save_stub_diplomatic writes the metadata file *)
StubWriteMeta ==
    /\ pc = "stub_meta"
    /\ stubMeta' = [stubMeta EXCEPT ![idx + 1] = {got.meta}]
    /\ Goto("artifacts")
    /\ NoFlush
    /\ UNCHANGED <<runs, doc_pages, obtained, files, idx, cfg, got, stubTxt, pass,
                   retryOwed, flaggedOff>>

----------------------------------------------------------------------------
(* Lines 506-554: page artifacts and the policy decisions *)

\* Lines 512-515: the transcript of the page is written to the work directory
WritePageFiles ==
    /\ pc = "artifacts"
    /\ files' = WithWorkFile(files, Page(mem, idx).page, got.text)
    /\ Goto("persist")
    /\ NoFlush
    /\ UNCHANGED <<runs, doc_pages, obtained, idx, cfg, got, stubTxt, stubMeta, pass,
                   retryOwed, flaggedOff>>

\* Line 520: the condition of the retry branch
RetryBranch(use_api, ps, t) ==
    use_api /\ should_retry(count_markers(t.text)[1], count_markers(t.text)[2],
                            ps.retries_used, th)

\* Lines 506-523: artifacts, then the retry counter and its save
PersistPage ==
    /\ pc = "persist"
    /\ LET ps == WithArtifacts(Page(mem, idx), got) IN
         IF RetryBranch(cfg.use_api, ps, got)
         THEN /\ Flush(WithPage(mem, idx, [ps EXCEPT !.retries_used = @ + 1]))
              /\ PassStep("retry")
              /\ retryOwed' = retryOwed \cup {idx + 1}
              /\ Goto("retry_status")
         ELSE /\ mem' = WithPage(mem, idx, ps)
              /\ UNCHANGED <<persisted, ever, pass, retryOwed>>
              /\ Goto("review")
    /\ got' = NoTranscript    \* transcription and meta are not read after line 520
    /\ UNCHANGED <<runs, doc_pages, obtained, files, idx, cfg, stubTxt, stubMeta, flaggedOff>>

\* Faulty variant: the test of line 528 is missing.
RetryStatus_AlwaysStops ==
    /\ pc = "retry_status"
    /\ Flush(WithPage(mem, idx, [Page(mem, idx) EXCEPT
                !.status = IF cfg.hitl THEN "needs_review" ELSE "pending"]))
    /\ End("stopped") /\ PassEnds
    /\ UNCHANGED <<runs, doc_pages, obtained, files, idx, cfg, got, stubTxt, stubMeta,
                   retryOwed, flaggedOff>>

\* Faulty variant: without HITL the page is re-attempted at once.
RetryStatus_RetriesNow ==
    /\ pc = "retry_status"
    /\ Flush(WithPage(mem, idx, [Page(mem, idx) EXCEPT
                !.status = IF cfg.hitl THEN "needs_review" ELSE "pending"]))
    /\ IF cfg.hitl THEN End("stopped") /\ PassEnds
       ELSE Goto("obtain") /\ pass' = pass
    /\ UNCHANGED <<runs, doc_pages, obtained, files, idx, cfg, got, stubTxt, stubMeta,
                   retryOwed, flaggedOff>>

\* Lines 526-530: status after a triggered retry
RetryStatus ==
    /\ pc = "retry_status"
    /\ Flush(WithPage(mem, idx, [Page(mem, idx) EXCEPT
                !.status = IF cfg.hitl THEN "needs_review" ELSE "pending"]))
    /\ IF cfg.hitl THEN End("stopped") /\ PassEnds
       ELSE Goto("review") /\ pass' = pass
    /\ UNCHANGED <<runs, doc_pages, obtained, files, idx, cfg, got, stubTxt, stubMeta,
                   retryOwed, flaggedOff>>

\* Lines 533-554: escalate or accept
Review ==
    /\ pc = "review"
    /\ LET ps == Page(mem, idx) IN
         IF needs_human_review(ps.confidence, ps.uncertain_count, ps.illegible_count, th)
         THEN /\ Flush(WithPage(mem, idx, [ps EXCEPT !.status = "needs_review"]))
              /\ IF cfg.hitl
                 THEN /\ Goto("prompt_stop")
                      /\ PassStep("escalate")
                      /\ UNCHANGED <<idx, flaggedOff>>
                 ELSE /\ Goto("loop")
                      /\ pass' = [pass EXCEPT !.steps = @ \cup {"escalate"}, !.ended = TRUE]
                      /\ idx' = idx + 1
                      /\ flaggedOff' = flaggedOff \cup {idx + 1}
         ELSE /\ Flush(WithPage(mem, idx, [ps EXCEPT !.status = "done"]))
              /\ Goto("loop")
              /\ pass' = [pass EXCEPT !.steps = @ \cup {"accept"}, !.ended = TRUE]
              /\ idx' = idx + 1
              /\ UNCHANGED flaggedOff
    /\ UNCHANGED <<runs, doc_pages, obtained, files, cfg, got, stubTxt, stubMeta, retryOwed>>

\* Lines 539-547: HITL gate, stop after a page was flagged
PromptStop(ok) ==
    /\ pc = "prompt_stop"
    /\ IF ok
       THEN /\ NoFlush
            /\ End("stopped")
            /\ idx' = idx
       ELSE /\ Flush(WithPage(mem, idx, [Page(mem, idx) EXCEPT !.status = "done"]))
            /\ Goto("loop")
            /\ idx' = idx + 1
    /\ PassEnds
    /\ UNCHANGED <<runs, doc_pages, obtained, files, cfg, got, stubTxt, stubMeta, retryOwed,
                   flaggedOff>>

----------------------------------------------------------------------------
(* Lines 561-597: assembly and normalization *)

Assemble ==
    /\ pc = "stages" /\ mem.stage = "v1_ready"
    /\ files' = [files EXCEPT !.v1 = {assemble_v1(mem, files)}]
    /\ Flush([mem EXCEPT !.v1_path = TRUE, !.stage = "normalizing"])
    /\ Goto("stages")
    /\ UNCHANGED <<runs, doc_pages, obtained, idx, cfg, got, stubTxt, stubMeta, pass,
                   retryOwed, flaggedOff>>

\* Faulty variant: the test of line 596 is missing.
Normalize_AlwaysAsks ==
    /\ pc = "stages" /\ mem.stage = "normalizing"
    /\ mem.v1_path
    /\ \E v1_text \in files.v1 : \E out \in NormalizeOutputs(cfg.use_api, v1_text) :
         files' = [files EXCEPT !.v2 = {out.corrected}, !.editlog = {out.editlog}]
    /\ Flush([mem EXCEPT !.v2_path = TRUE, !.stage = "done"])
    /\ Goto("prompt_final")
    /\ UNCHANGED <<runs, doc_pages, obtained, idx, cfg, got, stubTxt, stubMeta, pass,
                   retryOwed, flaggedOff>>

\* Lines 570-597: pass-through or a well-formed answer of the service
Normalize ==
    /\ pc = "stages" /\ mem.stage = "normalizing"
    /\ mem.v1_path
    /\ \E v1_text \in files.v1 : \E out \in NormalizeOutputs(cfg.use_api, v1_text) :
         files' = [files EXCEPT !.v2 = {out.corrected}, !.editlog = {out.editlog}]
    /\ Flush([mem EXCEPT !.v2_path = TRUE, !.stage = "done"])
    /\ IF cfg.hitl THEN Goto("prompt_final") ELSE End("returned")
    /\ UNCHANGED <<runs, doc_pages, obtained, idx, cfg, got, stubTxt, stubMeta, pass,
                   retryOwed, flaggedOff>>

\* Lines 251-252, 302-305, 581: the normalization call fails
NormalizeFails ==
    /\ pc = "stages" /\ mem.stage = "normalizing"
    /\ cfg.use_api \/ ~mem.v1_path
    /\ End("fatal")
    /\ NoFlush
    /\ UNCHANGED <<runs, doc_pages, obtained, files, idx, cfg, got, stubTxt, stubMeta, pass,
                   retryOwed, flaggedOff>>

\* Lines 596-597: HITL gate, final approval; the answer changes nothing
PromptFinal(ok) ==
    /\ pc = "prompt_final"
    /\ End("returned")
    /\ NoFlush
    /\ UNCHANGED <<runs, doc_pages, obtained, files, idx, cfg, got, stubTxt, stubMeta, pass,
                   retryOwed, flaggedOff>>

\* Lines 431-570 with stage done: every stage block is skipped
NothingToDo ==
    /\ pc = "stages" /\ mem.stage = "done"
    /\ End("returned")
    /\ NoFlush
    /\ UNCHANGED <<runs, doc_pages, obtained, files, idx, cfg, got, stubTxt, stubMeta, pass,
                   retryOwed, flaggedOff>>

----------------------------------------------------------------------------
(* The process is gone: its memory and local variables with it *)

Forget ==
    /\ pc' = "idle"
    /\ outcome' = "none"
    /\ mem' = persisted.state
    /\ idx' = 0
    /\ cfg' = NoConfig
    /\ got' = NoTranscript
    /\ pass' = NoPass
    /\ obtained' = {}
    /\ UNCHANGED <<runs, doc_pages, files, persisted, stubTxt, stubMeta, ever, retryOwed,
                   flaggedOff>>

\* The invocation has ended and the process exits.
Exit ==
    /\ pc = "end"
    /\ Forget

\* The operator stops the process (section 5 of the specification).
Interrupt ==
    /\ pc \notin {"idle", "end"}
    /\ Forget

Next ==
    \/ \E c \in Configs : Start(c)
    \/ Rasterize
    \/ RasterizeFails
    \/ MarkTranscribing
    \/ EnterLoop
    \/ LoopIter
    \/ \E ok \in BOOLEAN : PromptReoffer(ok)
    \/ LoopExit
    \/ ObtainGenerated
    \/ ObtainReplayed
    \/ ReplayStubMissing
    \/ ObtainLive
    \/ LiveCallFails
    \/ StubWriteText
    \/ StubWriteMeta
    \/ WritePageFiles
    \/ PersistPage
    \/ RetryStatus
    \/ Review
    \/ \E ok \in BOOLEAN : PromptStop(ok)
    \/ Assemble
    \/ Normalize
    \/ NormalizeFails
    \/ \E ok \in BOOLEAN : PromptFinal(ok)
    \/ NothingToDo
    \/ Exit
    \/ Interrupt

Spec == Init /\ [][Next]_vars

----------------------------------------------------------------------------
(* assemble_v1 on its own: any run state a state file can hold, with the   *)
(* page records stored in any order, and any content of the work directory *)
(* that has a page file for every transcript path set.                     *)

\* The orders in which the records of pages 1..n can be stored.
StoredOrders(n) ==
    {order \in [1..n -> 1..n] : \A j, k \in 1..n : order[j] = order[k] => j = k}

\* The texts a page file can hold.
PageTexts(n) ==
    {make_generated_stub(n).text} \cup {t.text : t \in LiveOutputs(n)}

\* The file of page n: absent, or a text of the given kind.
PageFile(n, kind) == {[t EXCEPT !.page = n] : t \in kind}

StoredPage(n, has_path) ==
    [PageState(n) EXCEPT !.diplomatic_txt_path = has_path,
                         !.status = IF has_path THEN "done" ELSE "pending"]

InitAssemble ==
    \E n \in 0..MaxStored :
      \E order \in StoredOrders(n), has_path \in [1..n -> BOOLEAN] :
        \E kind \in [1..n -> {{}} \cup {{t} : t \in PageTexts(0)}] :
          /\ \A q \in 1..n : has_path[q] => kind[q] # {}
          /\ doc_pages = n
          /\ mem = [AgentState EXCEPT
                       !.stage = "v1_ready", !.pages_total = n,
                       !.pages = [k \in 1..n |-> StoredPage(order[k], has_path[order[k]])]]
          /\ persisted = [exists |-> TRUE, state |-> mem]
          /\ files = [NoFiles EXCEPT !.work = [q \in 1..n |-> PageFile(q, kind[q])]]
          /\ pc = "assemble_v1"
          /\ runs = 1
          /\ idx = 0
          /\ cfg = NoConfig
          /\ got = NoTranscript
          /\ stubTxt = [p \in 1..MaxPages |-> {}]
          /\ stubMeta = [p \in 1..MaxPages |-> {}]
          /\ outcome = "none"
          /\ ever = [images |-> TRUE, done |-> {}]
          /\ pass = NoPass
          /\ retryOwed = {}
          /\ flaggedOff = {}
          /\ obtained = {}

\* Lines 562-565: the document is assembled and written.
AssembleCall ==
    /\ pc = "assemble_v1"
    /\ files' = [files EXCEPT !.v1 = {assemble_v1(mem, files)}]
    /\ pc' = "assembled"
    /\ UNCHANGED <<runs, doc_pages, obtained, persisted, mem, idx, cfg, got, stubTxt,
                   stubMeta, outcome, ever, pass, retryOwed, flaggedOff, obtained>>

NextAssemble == AssembleCall

SpecAssemble == InitAssemble /\ [][NextAssemble]_vars

----------------------------------------------------------------------------
(* Properties *)

PersistedState == persisted.state

States == {mem, PersistedState}

PageNumbers(state) == 1..Len(state.pages)

\* The controller is in a page pass (lines 472-554).
InPass == pc \in {"obtain", "stub_txt", "stub_meta", "artifacts", "persist", "retry_status",
                  "review", "prompt_stop"}

AtRasterCall == pc = "stages" /\ mem.stage = "init"

AtLiveCall == pc = "obtain" /\ cfg.use_api /\ cfg.stub_mode # "replay"

AtNormalizeCall == pc = "stages" /\ mem.stage = "normalizing" /\ mem.v1_path /\ cfg.use_api

AtPrompt == pc \in {"prompt_reoffer", "prompt_stop", "prompt_final"}

\* C1: the persisted stage never moves to an earlier stage of the order
\* init, images_ready, transcribing, v1_ready, normalizing, done, whatever
\* sequence of invocations, interruptions, HITL stops and fatal errors occurs.
C1_StageOnlyForward ==
    [][StageRank(persisted'.state.stage) >= StageRank(persisted.state.stage)]_vars

\* A later invocation resumes a run that an earlier one left at normalizing.
C1_Witness ==
    runs >= 2 /\ pc = "stages" /\ PersistedState.stage = "normalizing"

\* C2: once a stage images_ready or later was persisted the controller is never
\* again at the rasterization call, and once a page was persisted done the
\* controller is never again at the point of obtaining a transcript for it.
C2_NoRedo ==
    /\ AtRasterCall => ~ever.images
    /\ pc = "obtain" => (idx + 1) \notin ever.done

\* A later invocation whose loop started at page 1, found it done and skipped
\* it without a pass; page 2, still pending, is next.
C2_Witness ==
    /\ runs >= 2 /\ pc = "loop" /\ idx = 1 /\ pass = NoPass
    /\ Len(PersistedState.pages) >= 2
    /\ PersistedState.current_page_index = 0
    /\ 1 \in ever.done
    /\ Page(PersistedState, 1).status = "pending"

\* C3: no page record, in memory or persisted, has retries_used above the
\* retry budget of the thresholds in use; every threshold profile has the
\* same budget, so the bound holds for each of them.
C3_RetriesWithinBudget ==
    \A state \in States : \A p \in PageNumbers(state) :
        /\ state.pages[p].retries_used <= th.retry_budget
        /\ \A profile \in DOMAIN DEFAULT_THRESHOLDS :
              state.pages[p].retries_used <= DEFAULT_THRESHOLDS[profile].retry_budget

\* A page whose budget is used and whose status save was lost is processed
\* again with the API enabled and a transcript over the thresholds.
C3_Witness ==
    /\ pc = "persist" /\ cfg.use_api
    /\ Page(mem, idx).retries_used = 1 /\ Page(PersistedState, idx).status = "pending"
    /\ should_retry_NoBudget(got.text.uncertain, got.text.illegible, 1, th)

\* C4: a page record with status done, in memory or persisted, has its
\* transcript path set.
C4_DoneHasTranscript ==
    \A state \in States : \A p \in PageNumbers(state) :
        state.pages[p].status = "done" => state.pages[p].diplomatic_txt_path

C4_Witness ==
    \E p \in PageNumbers(PersistedState) : PersistedState.pages[p].status = "done"

\* C5 (as claimed): when the persisted stage goes from transcribing to v1_ready
\* every page is done, failed, or needs_review with human-in-the-loop disabled
\* in the invocation taking the transition.
C5_Original ==
    [][(persisted.state.stage = "transcribing" /\ persisted'.state.stage = "v1_ready")
        => \A p \in PageNumbers(persisted'.state) :
              LET st == persisted'.state.pages[p].status IN
                \/ st \in {"done", "failed"}
                \/ st = "needs_review" /\ ~cfg.hitl]_vars

\* The resumption-relevant fields of a run state.
Resumption(state) ==
    [stage |-> state.stage, current_page_index |-> state.current_page_index,
     pages |-> state.pages]

\* C6: whenever the controller is at a rasterization call, a live
\* transcription call, a normalization call or a HITL prompt, the state file
\* exists and holds the in-memory stage, next-page index and page records.
C6_FlushedBeforeBlocking ==
    (AtRasterCall \/ AtLiveCall \/ AtNormalizeCall \/ AtPrompt)
        => persisted.exists /\ Resumption(PersistedState) = Resumption(mem)

\* The stop prompt after a page was given its artifacts and flagged.
C6_Witness ==
    /\ pc = "prompt_stop"
    /\ Page(mem, idx).diplomatic_txt_path /\ Page(mem, idx).confidence # "none"
    /\ Page(mem, idx).status = "needs_review"

\* C7 (as claimed): a pass in which the retry step was applied does not apply
\* the escalation step, and leaves the page needs_review with
\* human-in-the-loop enabled and pending with it disabled.
C7_Original ==
    (pass.ended /\ "retry" \in pass.steps)
        => /\ "escalate" \notin pass.steps
           /\ mem.pages[pass.page].status =
                 IF cfg.hitl THEN "needs_review" ELSE "pending"

\* The retry predicate as the specification states it.
ShouldRetryStated(u, i, r, t) ==
    r < t.retry_budget /\ (u > t.max_uncertain \/ i > t.max_illegible)

RetriesUsed(state) == [p \in PageNumbers(state) |-> state.pages[p].retries_used]

Bumped(counters, p) == [counters EXCEPT ![p] = @ + 1]

\* A step of a page pass that stays in the invocation.
PassStepTaken == InPass /\ pc' # "idle"

\* C8 (as claimed): in any configuration the step that handles the obtained
\* transcript increments the page's retry counter by one if the retry
\* predicate holds for it and leaves it unchanged otherwise.
C8_Original ==
    [][(pc = "persist" /\ pc' # "idle")
        => Page(mem', idx).retries_used =
              IF ShouldRetryStated(got.text.uncertain, got.text.illegible,
                                   Page(mem, idx).retries_used, th)
              THEN Page(mem, idx).retries_used + 1
              ELSE Page(mem, idx).retries_used]_vars

\* C8 (amended): with the API enabled, the step that handles the obtained
\* transcript increments the page's retry counter by exactly one if the retry
\* predicate holds; in every other step of a pass, and with the API disabled,
\* every retry counter is unchanged.
C8_RetryCounter ==
    [][PassStepTaken
        => RetriesUsed(mem') =
              IF /\ pc = "persist" /\ cfg.use_api
                 /\ ShouldRetryStated(got.text.uncertain, got.text.illegible,
                                      Page(mem, idx).retries_used, th)
              THEN Bumped(RetriesUsed(mem), idx + 1)
              ELSE RetriesUsed(mem)]_vars

\* The counter was just incremented and saved.
C8_Witness ==
    /\ pc = "retry_status" /\ cfg.use_api
    /\ Page(PersistedState, idx).retries_used = 1

\* C9 (as claimed): the run does not reach stage done while a page's triggered
\* retry was never followed by a new attempt to obtain its transcript.
C9_Original ==
    PersistedState.stage = "done" => retryOwed = {}

\* C10 (as claimed): an invocation with human-in-the-loop enabled that runs to
\* its end has re-offered every page that an invocation with it disabled left
\* needs_review.
C10_Original ==
    (pc = "end" /\ outcome = "returned" /\ cfg.hitl) => flaggedOff = {}

\* The escalation predicate as the specification states it, for a page record.
EscalationStated(ps, t) ==
    \/ ps.confidence = "low"
    \/ ps.uncertain_count > t.max_uncertain
    \/ ps.illegible_count > t.max_illegible

\* C11 (as claimed): a pass that ended with human-in-the-loop enabled on a
\* processed page for which the escalation predicate holds has asked the gate
\* whether to stop.
C11_Original ==
    (/\ pass.ended /\ cfg.hitl /\ outcome # "fatal"
     /\ EscalationStated(mem.pages[pass.page], th))
        => "escalate" \in pass.steps

\* C11 (amended): at the escalation decision of a pass, if the escalation
\* predicate holds the page is persisted needs_review and, with
\* human-in-the-loop enabled, the stop gate is asked, else the loop moves to
\* the next page; the gate is asked nowhere else. A stop ends the invocation
\* with nothing changed on disk: the page needs_review, the stage transcribing.
\* A decline persists the page as done and moves to the next page. A pass
\* whose retry step was applied with human-in-the-loop enabled never reaches
\* the escalation decision: the invocation stops with the page persisted
\* needs_review and the gate not asked.
C11_Escalation ==
    [][/\ (pc = "review" /\ pc' # "idle" /\ EscalationStated(Page(mem, idx), th))
            => /\ Page(persisted'.state, idx).status = "needs_review"
               /\ IF cfg.hitl THEN pc' = "prompt_stop" /\ idx' = idx
                  ELSE pc' = "loop" /\ idx' = idx + 1
       /\ (pc' = "prompt_stop" /\ pc # "prompt_stop")
            => pc = "review" /\ cfg.hitl /\ EscalationStated(Page(mem, idx), th)
       /\ (pc = "prompt_stop" /\ pc' # "idle")
            => \/ /\ pc' = "end" /\ outcome' = "stopped"
                  /\ persisted' = persisted /\ files' = files
                  /\ stubTxt' = stubTxt /\ stubMeta' = stubMeta
                  /\ Page(persisted.state, idx).status = "needs_review"
                  /\ persisted.state.stage = "transcribing"
               \/ /\ pc' = "loop" /\ idx' = idx + 1
                  /\ persisted'.state =
                        WithPage(persisted.state, idx,
                                 [Page(persisted.state, idx) EXCEPT !.status = "done"])
       /\ (pc = "retry_status" /\ cfg.hitl /\ pc' # "idle")
            => /\ pc' = "end" /\ outcome' = "stopped"
               /\ Page(persisted'.state, idx).status = "needs_review"
               /\ persisted'.state.stage = "transcribing"]_vars

\* The user declined to stop after page 1 was flagged: page 1 is done and the
\* loop is at page 2.
C11_Witness ==
    /\ pc = "loop" /\ cfg.hitl /\ idx = 1
    /\ pass.ended /\ "escalate" \in pass.steps
    /\ Page(PersistedState, 0).status = "done"
    /\ EscalationStated(Page(PersistedState, 0), th)

\* C12: whenever the controller is at one of the three HITL prompts (re-offer
\* of a flagged page, stop after a flag, final approval), human-in-the-loop is
\* enabled for the invocation, whatever state the invocation was started from.
C12_NoPromptWhenDisabled ==
    AtPrompt => cfg.hitl

\* A later invocation with human-in-the-loop disabled that loaded a flagged
\* page and skipped it, flagged the other one and ran through normalization
\* to its end.
C12_Witness ==
    /\ runs >= 2 /\ pc = "end" /\ outcome = "returned" /\ ~cfg.hitl
    /\ PersistedState.stage = "done"
    /\ Len(PersistedState.pages) >= 2
    /\ flaggedOff = PageNumbers(PersistedState)
    /\ \A p \in PageNumbers(PersistedState) :
          PersistedState.pages[p].status = "needs_review"

\* The three sources of a transcript and what follows them, as steps from the
\* point where the transcript of page idx + 1 is obtained.
FromStoredStub ==
    /\ pass'.steps = {"replayed"} /\ got' \in load_stub_diplomatic(idx + 1)
    /\ pc' = "artifacts"

SynthesizedThenStored ==
    /\ pass'.steps = {"generated"} /\ got' = make_generated_stub(idx + 1)
    /\ pc' = "stub_txt"

LiveCall(stored) ==
    /\ pass'.steps = {"live"}
    /\ \/ /\ got' \in LiveOutputs(idx + 1)
          /\ pc' = IF stored THEN "stub_txt" ELSE "artifacts"
       \/ pc' = "end" /\ outcome' = "fatal"

FatalWithoutSource ==
    /\ pc' = "end" /\ outcome' = "fatal"
    /\ pass' = pass /\ got' = got

\* C13: the step that obtains the transcript of a page follows the table:
\* API disabled, replay: the stored stub if present, else a synthesized stub
\* that is then stored; API disabled, other modes: synthesized then stored;
\* API enabled, replay: the stored stub and never a live call; API enabled,
\* record: a live call whose result is then stored; API enabled, default mode:
\* a live call and no store. The stub store is written only by the store that
\* follows a source, with the transcript obtained, and a live call is recorded
\* only in an invocation with the API enabled and a mode other than replay.
C13_SourceTable ==
    [][/\ (pc = "obtain" /\ pc' # "idle")
            => LET present == load_stub_diplomatic(idx + 1) # {} IN
                 /\ stubTxt' = stubTxt /\ stubMeta' = stubMeta
                 /\ IF ~cfg.use_api
                    THEN IF cfg.stub_mode = "replay" /\ present
                         THEN FromStoredStub ELSE SynthesizedThenStored
                    ELSE IF cfg.stub_mode = "replay"
                         THEN IF present THEN FromStoredStub ELSE FatalWithoutSource
                    ELSE IF cfg.stub_mode = "record" THEN LiveCall(TRUE)
                    ELSE IF cfg.stub_mode = "off" THEN LiveCall(FALSE)
                    ELSE TRUE
       /\ (pc = "stub_txt" /\ pc' # "idle")
            => /\ stubTxt' = [stubTxt EXCEPT ![idx + 1] = {got.text}]
               /\ stubMeta' = stubMeta /\ pc' = "stub_meta"
       /\ (pc = "stub_meta" /\ pc' # "idle")
            => /\ stubMeta' = [stubMeta EXCEPT ![idx + 1] = {got.meta}]
               /\ stubTxt' = stubTxt /\ pc' = "artifacts"
       /\ (pc \notin {"stub_txt", "stub_meta"})
            => stubTxt' = stubTxt /\ stubMeta' = stubMeta
       /\ ("live" \in pass'.steps) => (cfg'.use_api /\ cfg'.stub_mode # "replay")]_vars

\* The result of a live call in record mode was stored as the stub of page 2;
\* page 1 has a stored stub too.
C13_Witness ==
    /\ pc = "artifacts" /\ cfg.use_api /\ cfg.stub_mode = "record" /\ idx = 1
    /\ "live" \in pass.steps
    /\ load_stub_diplomatic(2) = {got}
    /\ load_stub_diplomatic(1) # {}

\* C14: with the API enabled and stub mode replay, the step that is to obtain
\* the transcript of a page without a stored stub ends the invocation with a
\* fatal error: no source is used (no live call, no synthesized stub), the
\* stub store, the work files and the state file are unchanged, the state file
\* holds everything the invocation did before (stage transcribing, the page
\* record as it was, not failed), and the exit of the process keeps it.
C14_ReplayMissingIsFatal ==
    [][/\ (/\ pc = "obtain" /\ cfg.use_api /\ cfg.stub_mode = "replay"
           /\ load_stub_diplomatic(idx + 1) = {} /\ pc' # "idle")
            => /\ pc' = "end" /\ outcome' = "fatal"
               /\ pass' = pass /\ pass.steps = {} /\ got' = NoTranscript
               /\ stubTxt' = stubTxt /\ stubMeta' = stubMeta /\ files' = files
               /\ persisted' = persisted
               /\ Resumption(persisted.state) = Resumption(mem)
               /\ persisted.state.stage = "transcribing"
               /\ Page(persisted.state, idx).status \in {"pending", "needs_review"}
       /\ (pc = "end")
            => /\ persisted' = persisted /\ files' = files
               /\ stubTxt' = stubTxt /\ stubMeta' = stubMeta]_vars

\* Page 1 was replayed from its stub and accepted; page 2 has no stub.
C14_Witness ==
    /\ pc = "end" /\ outcome = "fatal"
    /\ cfg.use_api /\ cfg.stub_mode = "replay" /\ idx = 1
    /\ load_stub_diplomatic(1) # {} /\ load_stub_diplomatic(2) = {}
    /\ Page(PersistedState, 0).status = "done"
    /\ Page(PersistedState, 1) = PageState(2)

\* C15: the document assemble_v1 writes has exactly one section per page
\* record, the sections are in strictly ascending page-number order whatever
\* the order of the records, the section of a record without transcript path
\* is the missing-page placeholder, and the section of a record with a path
\* holds the text of that page's file.
C15_OneSectionPerPage ==
    pc = "assembled"
        => /\ files.v1 # {}
           /\ \A doc \in files.v1 :
                /\ Len(doc.sections) = Len(mem.pages)
                /\ \A k \in 1..(Len(doc.sections) - 1) :
                      doc.sections[k].page < doc.sections[k + 1].page
                /\ \A j \in 1..Len(mem.pages) :
                      \E k \in 1..Len(doc.sections) :
                         /\ doc.sections[k].page = mem.pages[j].page
                         /\ doc.sections[k].missing = ~mem.pages[j].diplomatic_txt_path
                         /\ mem.pages[j].diplomatic_txt_path
                               => doc.sections[k].text \in WorkFile(files, mem.pages[j].page)

\* Three records stored in the order 2, 1, 3, the record of page 3 without a
\* transcript path: the placeholder is the third section.
C15_Witness ==
    /\ pc = "assembled" /\ Len(mem.pages) = 3
    /\ mem.pages[1].page = 2 /\ mem.pages[2].page = 1 /\ mem.pages[3].page = 3
    /\ mem.pages[1].diplomatic_txt_path /\ ~mem.pages[3].diplomatic_txt_path
    /\ \A doc \in files.v1 : doc.sections[3].missing /\ ~doc.sections[1].missing

\* The configuration of the end-to-end scenario: no HITL, no API, generate.
ScenarioConfig == [NoConfig EXCEPT !.stub_mode = "generate"]

\* C16: the first invocation on a fresh document, run with human-in-the-loop
\* disabled, the API disabled and stub mode generate, ends (rasterization
\* having succeeded) by returning with stage done; every page has the
\* synthesized low-confidence stub stored, status needs_review and
\* retries_used 0; the first-pass document has one section per page, in page
\* order, holding the page's stub text; the final document equals the
\* first-pass document and the edit log is empty.
C16_EndToEnd ==
    (/\ runs = 1 /\ cfg = ScenarioConfig /\ pc = "end"
     /\ PersistedState.stage # "init")
        => /\ outcome = "returned" /\ PersistedState.stage = "done"
           /\ Len(PersistedState.pages) = doc_pages
           /\ \A p \in 1..doc_pages :
                /\ load_stub_diplomatic(p) = {make_generated_stub(p)}
                /\ PersistedState.pages[p].status = "needs_review"
                /\ PersistedState.pages[p].confidence = "low"
                /\ PersistedState.pages[p].retries_used = 0
           /\ files.v1 = {[sections |-> [p \in 1..doc_pages |->
                                          [page |-> p, missing |-> FALSE,
                                           text |-> make_generated_stub(p).text]],
                           corrections |-> 0]}
           /\ files.v2 = files.v1
           /\ files.editlog = {<< >>}

\* The scenario of the specification: a document of 2 pages.
C16_Witness ==
    /\ runs = 1 /\ cfg = ScenarioConfig /\ pc = "end" /\ doc_pages = 2
    /\ PersistedState.stage = "done"
    /\ files.v2 # {}

\* C17 (as claimed): in stub mode generate, once the transcript of a page is
\* obtained the stub store holds the synthesized stub of that page, with the
\* API enabled or disabled.
C17_Original ==
    (pc = "artifacts" /\ cfg.stub_mode = "generate")
        => load_stub_diplomatic(idx + 1) = {make_generated_stub(idx + 1)}

\* The pairs one save_stub_diplomatic call can write for page p.
SavedPairs(p) == {make_generated_stub(p)} \cup LiveOutputs(p)

\* C18 (as claimed): in every state, what a load of the stub of a page returns
\* is nothing or a (text, metadata) pair written by one save.
C18_Original ==
    \A p \in 1..MaxPages : load_stub_diplomatic(p) \subseteq SavedPairs(p)

\* C19: no page record, in memory or persisted, has status failed.
C19_NeverFailed ==
    \A state \in States : \A p \in PageNumbers(state) :
        state.pages[p].status # "failed"

\* A live call for page 2 failed in a later invocation: the invocation has
\* aborted and the record of page 2 is as it was loaded.
C19_Witness ==
    /\ runs >= 2 /\ pc = "end" /\ outcome = "fatal" /\ idx = 1
    /\ pass.ended /\ "live" \in pass.steps
    /\ Page(PersistedState, 1).status \in {"pending", "needs_review"}
    /\ Page(PersistedState, 0).status \in {"done", "needs_review"}

\* The control positions of an invocation in the order a page pass and the
\* stage blocks go through them.
PcOrder == <<"stages", "loop", "prompt_reoffer", "obtain", "stub_txt", "stub_meta",
             "artifacts", "persist", "retry_status", "review", "prompt_stop",
             "prompt_final", "end">>

PcRank(label) == CHOOSE k \in 1..Len(PcOrder) : PcOrder[k] = label

\* How far the invocation has come: stage, then page index, then position.
Progress ==
    (StageRank(mem.stage) * (MaxPages + 1) + idx) * (2 * Len(PcOrder)) + PcRank(pc)

\* A step of the invocation in which no external call fails.
StepWithoutFailure ==
    \/ Rasterize
    \/ MarkTranscribing
    \/ EnterLoop
    \/ LoopIter
    \/ \E ok \in BOOLEAN : PromptReoffer(ok)
    \/ LoopExit
    \/ ObtainGenerated
    \/ ObtainReplayed
    \/ ReplayStubMissing
    \/ ObtainLive
    \/ StubWriteText
    \/ StubWriteMeta
    \/ WritePageFiles
    \/ PersistPage
    \/ RetryStatus
    \/ Review
    \/ \E ok \in BOOLEAN : PromptStop(ok)
    \/ Assemble
    \/ Normalize
    \/ \E ok \in BOOLEAN : PromptFinal(ok)
    \/ NothingToDo

Running == pc \notin {"idle", "end"}

\* How an invocation that ended without a fatal error has ended.
EndedAsStated ==
    \/ outcome = "returned" /\ PersistedState.stage = "done"
    \/ /\ outcome = "stopped" /\ cfg.hitl
       /\ PersistedState.stage = "transcribing"
       /\ Page(PersistedState, idx).status = "needs_review"

\* C20: an invocation always has a next step in which no external call fails
\* (a prompt counts as answered), every step it takes moves it strictly
\* forward in a bounded order, so it ends after finitely many steps; when it
\* has ended without a fatal error it has returned with the persisted stage
\* done or, only with human-in-the-loop enabled, stopped at a HITL decision
\* with the stage transcribing and the page at the loop index persisted
\* needs_review.
C20_Terminates ==
    /\ [](Running => ENABLED StepWithoutFailure)
    /\ []((pc = "end" /\ outcome # "fatal") => EndedAsStated)
    /\ [][(Running /\ pc' # "idle")
            => /\ Progress' > Progress
               /\ Progress' <= (Len(Stages) * (MaxPages + 1) + MaxPages)
                                  * (2 * Len(PcOrder)) + Len(PcOrder)]_vars

\* A later invocation stopped at the gate after page 2 was flagged.
C20_Witness ==
    /\ runs >= 2 /\ pc = "end" /\ outcome = "stopped" /\ cfg.hitl /\ idx = 1
    /\ pass.ended /\ "escalate" \in pass.steps
    /\ PersistedState.stage = "transcribing"

Obtains == pc = "obtain" /\ pc' # "idle" /\ pass' # pass

\* C22: within one invocation a transcript is obtained for a page at most
\* once: a step that obtains one does so for a page for which the invocation
\* has obtained none before, and the local transcript changes to a new
\* transcript in such steps only.
C22_ObtainedOnce ==
    [][/\ Obtains => /\ (idx + 1) \notin obtained
                     /\ obtained' = obtained \cup {idx + 1}
                     /\ pass'.page = idx + 1
                     /\ pass'.steps \in {{"generated"}, {"replayed"}, {"live"}}
       /\ (got' # got /\ got' # NoTranscript) => Obtains
       /\ (obtained' # obtained /\ pc' # "idle") => Obtains]_vars

\* The retry step was applied to page 1 with human-in-the-loop disabled; the
\* loop has moved on to page 2 with the one transcript of page 1 obtained.
C22_Witness ==
    /\ pc = "loop" /\ idx = 1 /\ ~cfg.hitl
    /\ pass.ended /\ pass.page = 1 /\ "retry" \in pass.steps
    /\ obtained = {1}
    /\ Page(PersistedState, 0).retries_used = 1

\* C23: in every persisted state every page that is not pending has its
\* transcript path set; once the persisted stage is v1_ready or later no page
\* is pending, so every page has a path; and the first-pass document, once
\* written, has one section per page and no missing-page placeholder.
C23_NoPlaceholder ==
    /\ \A p \in PageNumbers(PersistedState) :
          PersistedState.pages[p].status # "pending"
             => PersistedState.pages[p].diplomatic_txt_path
    /\ StageRank(PersistedState.stage) >= StageRank("v1_ready")
          => \A p \in PageNumbers(PersistedState) :
                /\ PersistedState.pages[p].status # "pending"
                /\ PersistedState.pages[p].diplomatic_txt_path
    /\ \A doc \in files.v1 :
          /\ Len(doc.sections) = PersistedState.pages_total
          /\ \A k \in 1..Len(doc.sections) :
                /\ ~doc.sections[k].missing
                /\ doc.sections[k].page = k
                /\ doc.sections[k].text \in WorkFile(files, k)

\* The document of a 2-page run that took several invocations, one page
\* accepted and one left flagged.
C23_Witness ==
    /\ runs >= 2 /\ files.v1 # {} /\ doc_pages = 2
    /\ PersistedState.stage = "normalizing"
    /\ Page(PersistedState, 0).status = "needs_review"
    /\ Page(PersistedState, 1).status = "done"
    /\ Page(PersistedState, 0).retries_used = 1

====
